---- MODULE Spec2Model ----
(***************************************************************************)
(* The T&C detection, scoring and extraction engine of the extension: the  *)
(* detector injected by the popup (popup.js detectAndExtractTC), the       *)
(* analyzer of the content script (content.js analyzeTCContent) and the    *)
(* extraction injected by the background worker (background.js             *)
(* extractTextContent), all run on one document snapshot.                  *)
(*                                                                         *)
(* A text is a sequence of one-character strings.  The vocabularies and    *)
(* the score weights are the source's.  The three lengths the source       *)
(* compares texts against (500, 10000 and 50000 characters) are scaled     *)
(* down, keeping their order, so that the documents of the model can be    *)
(* longer than each of them.                                               *)
(*                                                                         *)
(* Around the engine: the popup's handlers and its requests to the         *)
(* backend, the summary cache in chrome.storage.local with its readers,    *)
(* writers and cleanup, the onMessage listeners, and the content script's  *)
(* page detection with its observer and timers.                            *)
(***************************************************************************)
EXTENDS Integers, Sequences, FiniteSets, TLC

VARIABLES
  snap,          \* the document snapshot: [url, title, doc]
  popupResult,   \* <<>> or <<the object detectAndExtractTC returned>>
  popupLog,      \* <<>> or <<the sub-scores detectAndExtractTC logged>>
  contentResult, \* <<>> or <<the object analyzeTCContent returned>>
  bgResult,      \* <<>> or <<the object the background's injected function returned>>
  tab,           \* the page of the tab the popup is open on (an index of Pages), 0: no popup
  pc,            \* how far the popup's DOMContentLoaded handler has come
  ui,            \* the popup's elements: status, loading, content, summarize button
  currentPageData, \* popup.js 10: <<>> (null) or <<the detection result>>
  flights,       \* the calls of generateAnalysis in progress
  lastClick,     \* <<>> or <<how the last click handler ended>>
  storage,       \* chrome.storage.local: key -> <<>> or <<entry>>
  now,           \* Date.now(), in hours
  msg,           \* <<>> or <<the message an onMessage listener received last>>
  script,        \* the content script: "unloaded", "waiting" (for DOMContentLoaded), "observing"
  isLikelyTC,    \* content.js 8
  indicatorElements, \* the elements with the indicator's id in the document: [el, dimmed]
  detectionTimeout, \* content.js 222: 0 (undefined) or the id of the detection timer set last
  timers,        \* the pending timers, in the order they were set: [id, kind, remaining, el]
  records,       \* the observer has changes to report
  quiet,         \* the ticks since the observer last reported, up to DetectionDelay
  budget,        \* the changes the page will still make to itself
  lastRun,       \* <<>> or <<what the last run of detectTCPage found and concluded>>
  everSignal     \* some run of detectTCPage found a signal in its snapshot

engineVars == <<snap, popupResult, popupLog, contentResult, bgResult>>
popupVars == <<tab, pc, ui, currentPageData, flights, lastClick>>
cacheVars == <<storage, now>>
contentVars == <<script, isLikelyTC, indicatorElements, detectionTimeout, timers, records, quiet,
                 budget, lastRun, everSignal>>
\* all but the page and the content script
otherVars == <<popupResult, popupLog, contentResult, bgResult, popupVars, cacheVars, msg>>
vars == <<engineVars, popupVars, cacheVars, msg, contentVars>>

(***************************************************************************)
(* Lengths, scaled.                                                        *)
(***************************************************************************)
\* the minimum container length; 500 in the source
MinContentLength == 20
\* the cap of detectAndExtractTC and analyzeTCContent; 10000 in the source
MaxTextLength == 30
\* the cap of the background extraction; 50000 in the source
MaxBackgroundLength == 40

(***************************************************************************)
(* Strings.                                                                *)
(***************************************************************************)
Min(a, b) == IF a <= b THEN a ELSE b

\* what \s and trim() take for white space
Whitespace == {" ", "\t", "\n"}

\* what \d matches
Digits == {"0", "1", "2", "3", "4", "5", "6", "7", "8", "9"}

UpperToLower ==
  "A" :> "a" @@ "B" :> "b" @@ "C" :> "c" @@ "D" :> "d" @@ "E" :> "e" @@ "F" :> "f" @@ "G" :> "g"
  @@ "H" :> "h" @@ "I" :> "i" @@ "J" :> "j" @@ "K" :> "k" @@ "L" :> "l" @@ "M" :> "m" @@ "N" :> "n"
  @@ "O" :> "o" @@ "P" :> "p" @@ "Q" :> "q" @@ "R" :> "r" @@ "S" :> "s" @@ "T" :> "t" @@ "U" :> "u"
  @@ "V" :> "v" @@ "W" :> "w" @@ "X" :> "x" @@ "Y" :> "y" @@ "Z" :> "z"

\* what [A-Z] matches
UpperCase == DOMAIN UpperToLower

\* String.prototype.toLowerCase
ToLowerCase(t) ==
  [i \in 1..Len(t) |-> IF t[i] \in UpperCase THEN UpperToLower[t[i]] ELSE t[i]] \o <<>>

\* p occurs in t at (1-based) position i
MatchAt(t, p, i) ==
  /\ i + Len(p) - 1 <= Len(t)
  /\ \A k \in 1..Len(p) : t[i + k - 1] = p[k]

\* String.prototype.includes
Includes(t, p) == \E i \in 1..(Len(t) - Len(p) + 1) : MatchAt(t, p, i)

\* the length of the longest run of characters of class from position i on
RunLength(t, class, i) ==
  LET stop == CHOOSE j \in i..(Len(t) + 1) :
                /\ j = Len(t) + 1 \/ t[j] \notin class
                /\ \A k \in i..(j - 1) : t[k] \in class
  IN stop - i

\* String.prototype.trim
Trim(t) ==
  LET lead == RunLength(t, Whitespace, 1)
  IN IF lead = Len(t) THEN <<>>
     ELSE LET last == CHOOSE j \in 1..Len(t) :
                        /\ t[j] \notin Whitespace
                        /\ \A k \in (j + 1)..Len(t) : t[k] \in Whitespace
          IN SubSeq(t, lead + 1, last)

\* a slip: the cap is not applied
SubstringWhole(t, n) == t

\* String.prototype.substring(0, n)
Substring(t, n) == SubSeq(t, 1, Min(n, Len(t)))

\* t.replace(/\s+/g, by) for a replacement by of at most one character, as at every
\* call: every maximal white-space run becomes by
ReplaceWhitespace(t, by) ==
  LET kept == SelectSeq([i \in 1..Len(t) |-> i],
                        LAMBDA i : \/ t[i] \notin Whitespace
                                   \/ by # <<>> /\ (i = 1 \/ t[i - 1] \notin Whitespace))
  IN [k \in 1..Len(kept) |-> IF t[kept[k]] \in Whitespace THEN by[1] ELSE t[kept[k]]]
       \o <<>>

\* replace(/\s+/g, ' ').trim(): the normalization step
Normalize(t) == Trim(ReplaceWhitespace(t, <<" ">>))

(***************************************************************************)
(* Regular expressions.  A pattern is [kind, alts]: "alt" is the           *)
(* alternation alts[1]|alts[2]|... of literal phrases with flags gi,       *)
(* "keynum" is /alts[1]\s+\d+/gi, "numbered" is /\d+\.\s+[A-Z]/g.          *)
(***************************************************************************)
\* the first alternative, in order, that occurs in lt at i; 0 when none does
FirstAlternative(lt, alts, i) ==
  IF \E a \in 1..Len(alts) : MatchAt(lt, alts[a], i)
  THEN CHOOSE a \in 1..Len(alts) :
         /\ MatchAt(lt, alts[a], i)
         /\ \A b \in 1..(a - 1) : ~MatchAt(lt, alts[b], i)
  ELSE 0

\* the length of the match of pattern re that starts at position i of t, 0 when none
MatchLength(t, lt, re, i) ==
  CASE re.kind = "alt" ->
         LET a == FirstAlternative(lt, re.alts, i)
         IN IF a = 0 THEN 0 ELSE Len(re.alts[a])
    [] re.kind = "keynum" ->
         IF ~MatchAt(lt, re.alts[1], i) THEN 0
         ELSE LET k == Len(re.alts[1])
                  w == RunLength(t, Whitespace, i + k)
                  d == RunLength(t, Digits, i + k + w)
              IN IF w > 0 /\ d > 0 THEN k + w + d ELSE 0
    [] re.kind = "numbered" ->
         LET d == RunLength(t, Digits, i)
             dot == i + d
             w == RunLength(t, Whitespace, dot + 1)
             cap == dot + 1 + w
         IN IF /\ d > 0
               /\ dot <= Len(t) /\ t[dot] = "."
               /\ w > 0
               /\ cap <= Len(t) /\ t[cap] \in UpperCase
            THEN d + 1 + w + 1 ELSE 0

\* a slip: the i flag is missing
MatchCountCaseSensitive(t, re) ==
  LET length == [i \in 1..Len(t) |-> MatchLength(t, t, re, i)] \o <<>>
      starts == {i \in 1..Len(t) : length[i] > 0}
      count[i \in 1..(Len(t) + 1)] ==
        LET ahead == {j \in starts : j >= i}
        IN IF ahead = {} THEN 0
           ELSE LET j == CHOOSE j \in ahead : \A k \in ahead : j <= k
                IN 1 + count[j + length[j]]
  IN count[1]

\* t.match(re) with flag g: the number of matches, found left to right without overlap
\* (null, which the callers skip, is 0 matches)
MatchCount(t, re) ==
  LET lt == ToLowerCase(t)
      length == [i \in 1..Len(t) |-> MatchLength(t, lt, re, i)] \o <<>>
      starts == {i \in 1..Len(t) : length[i] > 0}
      \* the matches found from position i on
      count[i \in 1..(Len(t) + 1)] ==
        LET ahead == {j \in starts : j >= i}
        IN IF ahead = {} THEN 0
           ELSE LET j == CHOOSE j \in ahead : \A k \in ahead : j <= k
                IN 1 + count[j + length[j]]
  IN count[1]

\* the position of the leftmost match of the alternation alts in t (flag i), 0 when none
FirstMatch(t, alts) ==
  LET lt == ToLowerCase(t)
      hits == {i \in 1..Len(t) : FirstAlternative(lt, alts, i) > 0}
  IN IF hits = {} THEN 0 ELSE CHOOSE i \in hits : \A j \in hits : i <= j

\* the sum of f[1..Len(f)]
Sum(f) ==
  LET acc[k \in 0..Len(f)] == IF k = 0 THEN 0 ELSE acc[k - 1] + f[k]
  IN acc[Len(f)]

(***************************************************************************)
(* Vocabularies.                                                           *)
(***************************************************************************)
(* popup.js 219-225: the indicator phrases of the injected detector *)
tcIndicators ==
  << <<"t","e","r","m","s"," ","o","f"," ","s","e","r","v","i","c","e">>,
     <<"t","e","r","m","s"," ","o","f"," ","u","s","e">>,
     <<"t","e","r","m","s"," ","a","n","d"," ","c","o","n","d","i","t","i","o","n","s">>,
     <<"u","s","e","r"," ","a","g","r","e","e","m","e","n","t">>,
     <<"p","r","i","v","a","c","y"," ","p","o","l","i","c","y">>,
     <<"l","e","g","a","l">>,
     <<"e","u","l","a">>,
     <<"e","n","d"," ","u","s","e","r"," ","l","i","c","e","n","s","e"," ","a","g","r","e","e","m","e","n","t">>,
     <<"s","e","r","v","i","c","e"," ","a","g","r","e","e","m","e","n","t">>,
     <<"a","c","c","e","p","t","a","b","l","e"," ","u","s","e"," ","p","o","l","i","c","y">>,
     <<"c","o","m","m","u","n","i","t","y"," ","g","u","i","d","e","l","i","n","e","s">>,
     <<"d","a","t","a"," ","p","o","l","i","c","y">>,
     <<"c","o","o","k","i","e"," ","p","o","l","i","c","y">>,
     <<"d","i","s","c","l","a","i","m","e","r">> >>

(* popup.js 295-304: the legal-language phrases, each compiled with flags gi *)
legalPatterns ==
  << <<"h","e","r","e","b","y"," ","a","g","r","e","e">>,
     <<"t","e","r","m","s"," ","o","f"," ","s","e","r","v","i","c","e">>,
     <<"u","s","e","r"," ","a","g","r","e","e","m","e","n","t">>,
     <<"p","r","i","v","a","c","y"," ","p","o","l","i","c","y">>,
     <<"d","a","t","a"," ","c","o","l","l","e","c","t","i","o","n">>,
     <<"i","n","t","e","l","l","e","c","t","u","a","l"," ","p","r","o","p","e","r","t","y">>,
     <<"l","i","m","i","t","a","t","i","o","n"," ","o","f"," ","l","i","a","b","i","l","i","t","y">>,
     <<"g","o","v","e","r","n","i","n","g"," ","l","a","w">>,
     <<"d","i","s","p","u","t","e"," ","r","e","s","o","l","u","t","i","o","n">>,
     <<"t","e","r","m","i","n","a","t","i","o","n">>,
     <<"p","r","o","h","i","b","i","t","e","d"," ","u","s","e","s">>,
     <<"a","c","c","o","u","n","t"," ","s","u","s","p","e","n","s","i","o","n">>,
     <<"w","e"," ","c","o","l","l","e","c","t">>,
     <<"p","e","r","s","o","n","a","l"," ","i","n","f","o","r","m","a","t","i","o","n">>,
     <<"t","h","i","r","d"," ","p","a","r","t","y">>,
     <<"c","o","o","k","i","e","s">>,
     <<"t","r","a","c","k","i","n","g">>,
     <<"a","n","a","l","y","t","i","c","s">>,
     <<"m","a","r","k","e","t","i","n","g">>,
     <<"l","i","c","e","n","s","e">>,
     <<"c","o","p","y","r","i","g","h","t">>,
     <<"t","r","a","d","e","m","a","r","k">>,
     <<"w","a","r","r","a","n","t","y">>,
     <<"i","n","d","e","m","n","i","f","y">>,
     <<"b","i","n","d","i","n","g"," ","a","r","b","i","t","r","a","t","i","o","n">>,
     <<"c","l","a","s","s"," ","a","c","t","i","o","n">> >>

(* content.js 169-184: the weighted alternations of analyzeTCContent *)
indicators ==
  << [alts |-> << <<"t","e","r","m","s"," ","o","f"," ","s","e","r","v","i","c","e">>, <<"t","e","r","m","s"," ","o","f"," ","u","s","e">> >>, weight |-> 15],
     [alts |-> << <<"u","s","e","r"," ","a","g","r","e","e","m","e","n","t">>, <<"s","e","r","v","i","c","e"," ","a","g","r","e","e","m","e","n","t">> >>, weight |-> 15],
     [alts |-> << <<"p","r","i","v","a","c","y"," ","p","o","l","i","c","y">>, <<"d","a","t","a"," ","c","o","l","l","e","c","t","i","o","n">> >>, weight |-> 10],
     [alts |-> << <<"h","e","r","e","b","y"," ","a","g","r","e","e">>, <<"y","o","u"," ","a","g","r","e","e">> >>, weight |-> 10],
     [alts |-> << <<"i","n","t","e","l","l","e","c","t","u","a","l"," ","p","r","o","p","e","r","t","y">> >>, weight |-> 8],
     [alts |-> << <<"l","i","m","i","t","a","t","i","o","n"," ","o","f"," ","l","i","a","b","i","l","i","t","y">> >>, weight |-> 8],
     [alts |-> << <<"t","e","r","m","i","n","a","t","i","o","n">>, <<"s","u","s","p","e","n","d">>, <<"s","u","s","p","e","n","s","i","o","n">> >>, weight |-> 7],
     [alts |-> << <<"g","o","v","e","r","n","i","n","g"," ","l","a","w">>, <<"j","u","r","i","s","d","i","c","t","i","o","n">> >>, weight |-> 7],
     [alts |-> << <<"d","i","s","p","u","t","e"," ","r","e","s","o","l","u","t","i","o","n">>, <<"a","r","b","i","t","r","a","t","i","o","n">> >>, weight |-> 7],
     [alts |-> << <<"p","r","o","h","i","b","i","t","e","d"," ","u","s","e","s">>, <<"r","e","s","t","r","i","c","t","i","o","n","s">> >>, weight |-> 6],
     [alts |-> << <<"a","c","c","o","u","n","t">>, <<"r","e","g","i","s","t","r","a","t","i","o","n">> >>, weight |-> 5],
     [alts |-> << <<"p","a","y","m","e","n","t">>, <<"b","i","l","l","i","n","g">>, <<"f","e","e","s">> >>, weight |-> 5],
     [alts |-> << <<"c","o","o","k","i","e","s">>, <<"t","r","a","c","k","i","n","g">> >>, weight |-> 4],
     [alts |-> << <<"t","h","i","r","d"," ","p","a","r","t","y">>, <<"t","h","i","r","d","-","p","a","r","t","y">> >>, weight |-> 3] >>

(* content.js 158: the alternation of the prefix-stripping replace *)
stripKeywords ==
  << <<"t","e","r","m","s">>,
     <<"p","r","i","v","a","c","y">>,
     <<"l","e","g","a","l">>,
     <<"a","g","r","e","e","m","e","n","t">>,
     <<"p","o","l","i","c","y">> >>

(* popup.js 317-319: the keywords of the /keyword\s+\d+/gi structure patterns *)
structureKeywords ==
  << <<"s","e","c","t","i","o","n">>,
     <<"a","r","t","i","c","l","e">>,
     <<"c","l","a","u","s","e">> >>


\* popup.js 315-320: the structure patterns
structurePatterns ==
  << [kind |-> "numbered", alts |-> <<>>],
     [kind |-> "keynum", alts |-> <<structureKeywords[1]>>],
     [kind |-> "keynum", alts |-> <<structureKeywords[2]>>],
     [kind |-> "keynum", alts |-> <<structureKeywords[3]>>] >>

(***************************************************************************)
(* Weights and thresholds.                                                 *)
(***************************************************************************)
UrlWeight == 20
TitleWeight == 25
HeadingWeight == 15
LegalWeight == 3
StructureWeight == 2
ContentScoreCap == 50
MaxScore == 100
PopupThreshold == 25
maxPossibleScore == 200
AnalyzerThreshold == 30

(***************************************************************************)
(* The document.  doc is the sequence of the body's elements in document   *)
(* order, each [tag, id, class, role, text] with "" for an attribute the   *)
(* element does not have; text is the element's innerText.  A selector is  *)
(* [by, name].                                                             *)
(***************************************************************************)
Tag(name) == [by |-> "tag", name |-> name]
Class(name) == [by |-> "class", name |-> name]
Id(name) == [by |-> "id", name |-> name]
Role(name) == [by |-> "role", name |-> name]
ClassContains(name) == [by |-> "class*", name |-> name]

\* the class names of the selector lists that contain a given substring
ClassesWith ==
  [terms |-> {"terms", "terms-content"},
   privacy |-> {"privacy-content"},
   policy |-> {"policy", "policy-content"}]

Matches(el, sel) ==
  CASE sel.by = "tag" -> el.tag = sel.name
    [] sel.by = "class" -> el.class = sel.name
    [] sel.by = "id" -> el.id = sel.name
    [] sel.by = "role" -> el.role = sel.name
    [] sel.by = "class*" -> el.class \in ClassesWith[sel.name]

\* document.querySelector: the index of the first matching element, 0 for null
QuerySelector(doc, sel) ==
  IF \E i \in 1..Len(doc) : Matches(doc[i], sel)
  THEN CHOOSE i \in 1..Len(doc) :
         /\ Matches(doc[i], sel)
         /\ \A j \in 1..(i - 1) : ~Matches(doc[j], sel)
  ELSE 0

RECURSIVE Join(_, _)
\* Array.prototype.join
Join(texts, sep) ==
  IF texts = <<>> THEN <<>>
  ELSE IF Len(texts) = 1 THEN texts[1]
  ELSE texts[1] \o sep \o Join(Tail(texts), sep)

\* document.body.innerText: the elements' texts, one block per line
BodyText(doc) == Join([i \in 1..Len(doc) |-> doc[i].text], <<"\n">>)

HeadingTags == {"h1", "h2", "h3", "h4", "h5", "h6"}

\* querySelectorAll('h1, h2, h3, h4, h5, h6'), lower-cased and joined with ' '
Headings(doc) ==
  LET hs == SelectSeq(doc, LAMBDA el : el.tag \in HeadingTags)
  IN Join([i \in 1..Len(hs) |-> ToLowerCase(hs[i].text)], <<" ">>)

(***************************************************************************)
(* popup.js: detectAndExtractTC.                                           *)
(***************************************************************************)
contentSelectors ==
  << Tag("main"), Role("main"), Class("content"), Class("main-content"),
     Class("terms"), Class("legal-content"), Class("policy-content"),
     Class("terms-content"), Tag("article"), Class("article-content"),
     Class("document-content"), Class("policy"), Class("agreement"),
     Class("legal") >>

\* a slip: a variant is tried once, however many separators produce it
VariationsDistinct(indicator) ==
  LET hyphen == ReplaceWhitespace(indicator, <<"-">>)
      joined == ReplaceWhitespace(indicator, <<>>)
      under == ReplaceWhitespace(indicator, <<"_">>)
  IN <<hyphen>>
       \o (IF joined # hyphen THEN <<joined>> ELSE <<>>)
       \o (IF under # hyphen /\ under # joined THEN <<under>> ELSE <<>>)

Variations(indicator) ==
  << ReplaceWhitespace(indicator, <<"-">>),
     ReplaceWhitespace(indicator, <<>>),
     ReplaceWhitespace(indicator, <<"_">>) >>

UrlScore(href) ==
  LET url == ToLowerCase(href)
  IN Sum([k \in 1..Len(tcIndicators) |->
            LET variations == Variations(tcIndicators[k])
            IN Sum([v \in 1..Len(variations) |->
                      IF Includes(url, variations[v]) THEN UrlWeight ELSE 0])])

TitleScore(docTitle) ==
  LET title == ToLowerCase(docTitle)
  IN Sum([k \in 1..Len(tcIndicators) |->
            IF Includes(title, tcIndicators[k]) THEN TitleWeight ELSE 0])

HeadingScore(doc) ==
  LET headings == Headings(doc)
  IN Sum([k \in 1..Len(tcIndicators) |->
            IF Includes(headings, tcIndicators[k]) THEN HeadingWeight ELSE 0])

RECURSIVE PopupSelectorLoop(_, _, _)
\* the for loop over contentSelectors: contentElement after it, from selector k on
PopupSelectorLoop(doc, k, contentElement) ==
  IF k > Len(contentSelectors) THEN contentElement
  ELSE LET el == QuerySelector(doc, contentSelectors[k])
       IN IF el # 0 /\ Len(Trim(doc[el].text)) > MinContentLength
          THEN el
          ELSE PopupSelectorLoop(doc, k + 1, el)

\* the element whose text is extracted, 0 for document.body
PopupContentElement(doc) == PopupSelectorLoop(doc, 1, 0)

PopupMainContent(doc) ==
  LET contentElement == PopupContentElement(doc)
      rawText == IF contentElement = 0 THEN BodyText(doc)
                 ELSE doc[contentElement].text
  IN Normalize(rawText)

PopupContentScore(mainContent) ==
  Sum([k \in 1..Len(legalPatterns) |->
         MatchCount(mainContent, [kind |-> "alt", alts |-> <<legalPatterns[k]>>])
           * LegalWeight])
  + Sum([k \in 1..Len(structurePatterns) |->
           MatchCount(mainContent, structurePatterns[k]) * StructureWeight])

\* a slip: the total is not clamped to 100
PopupTotalScoreUnclamped(urlScore, titleScore, headingScore, contentScore) ==
  urlScore + titleScore + headingScore + Min(contentScore, ContentScoreCap)

\* a slip: the content score is not capped before it is added
PopupTotalScoreUncapped(urlScore, titleScore, headingScore, contentScore) ==
  Min(MaxScore, urlScore + titleScore + headingScore + contentScore)

\* a slip: Math.max for Math.min
PopupTotalScoreMax(urlScore, titleScore, headingScore, contentScore) ==
  LET sum == urlScore + titleScore + headingScore + Min(contentScore, ContentScoreCap)
  IN IF sum >= MaxScore THEN sum ELSE MaxScore

PopupTotalScore(urlScore, titleScore, headingScore, contentScore) ==
  Min(MaxScore, urlScore + titleScore + headingScore + Min(contentScore, ContentScoreCap))

\* one run of detectAndExtractTC: the sub-scores it logs and the object it returns
\* (Math.round of an integer is the integer)
DetectAndExtractTC(s) ==
  LET urlScore == UrlScore(s.url)
      titleScore == TitleScore(s.title)
      headingScore == HeadingScore(s.doc)
      mainContent == PopupMainContent(s.doc)
      contentScore == PopupContentScore(mainContent)
      totalScore == PopupTotalScore(urlScore, titleScore, headingScore, contentScore)
  IN [logged |-> [url |-> urlScore, title |-> titleScore, heading |-> headingScore,
                  content |-> contentScore, total |-> totalScore],
      returned |-> [isTC |-> totalScore >= PopupThreshold,
                    confidence |-> totalScore,
                    text |-> Substring(mainContent, MaxTextLength),
                    url |-> s.url,
                    title |-> s.title]]

(***************************************************************************)
(* content.js: extractTCContent and analyzeTCContent.                      *)
(***************************************************************************)
analyzerSelectors ==
  << Tag("main"), Role("main"), Class("terms-content"), Class("legal-content"),
     Class("privacy-content"), Class("policy-content"), Class("agreement-content"),
     Tag("article"), Class("content"), Class("main-content"), Id("content"),
     Id("main-content") >>

RECURSIVE AnalyzerSelectorLoop(_, _, _)
\* the for loop over the selectors: contentContainer after it (the length is not trimmed)
AnalyzerSelectorLoop(doc, k, contentContainer) ==
  IF k > Len(analyzerSelectors) THEN contentContainer
  ELSE LET el == QuerySelector(doc, analyzerSelectors[k])
       IN IF el # 0 /\ Len(doc[el].text) > MinContentLength
          THEN el
          ELSE AnalyzerSelectorLoop(doc, k + 1, el)

\* content.replace(/^.*?(terms|privacy|legal|agreement|policy)/i, '$1'): what stands
\* before the leftmost keyword is dropped (the text is one line by then)
StripPrefix(content) ==
  LET at == FirstMatch(content, stripKeywords)
  IN IF at = 0 THEN content ELSE SubSeq(content, at, Len(content))

ExtractTCContent(doc) ==
  LET contentContainer == AnalyzerSelectorLoop(doc, 1, 0)
      raw == IF contentContainer = 0 THEN BodyText(doc)
             ELSE doc[contentContainer].text
  IN StripPrefix(Normalize(raw))

AnalyzerScore(content) ==
  Sum([k \in 1..Len(indicators) |->
         MatchCount(content, [kind |-> "alt", alts |-> indicators[k].alts])
           * indicators[k].weight])

\* Math.round((score / maxPossibleScore) * 100) in double arithmetic: halves round up,
\* but (29/200)*100, (57/200)*100, (113/200)*100 and (115/200)*100 come out just
\* below the half and round down
RoundPercent(score) ==
  IF score \in {29, 57, 113, 115} THEN (score * 100) \div maxPossibleScore
  ELSE (score * 100 + maxPossibleScore \div 2) \div maxPossibleScore

\* content.split(/\s+/).length: one more than the number of white-space runs
SplitLength(content) ==
  1 + Cardinality({i \in 1..Len(content) :
                     /\ content[i] \in Whitespace
                     /\ i = 1 \/ content[i - 1] \notin Whitespace})

AnalyzeTCContent(doc) ==
  LET content == ExtractTCContent(doc)
      score == AnalyzerScore(content)
      confidence == Min(MaxScore, RoundPercent(score))
  IN [isTC |-> confidence >= AnalyzerThreshold,
      confidence |-> confidence,
      content |-> Substring(content, MaxTextLength),
      wordCount |-> SplitLength(content),
      keyIndicators |->
        Cardinality({k \in 1..Len(indicators) :
                       MatchCount(content, [kind |-> "alt", alts |-> indicators[k].alts]) > 0})]

(***************************************************************************)
(* background.js: the function handleTCAnalysis injects.                   *)
(***************************************************************************)
selectors ==
  << Tag("main"), Tag("article"), Class("terms-content"), Class("policy-content"),
     Class("privacy-content"), Id("terms"), Id("privacy-policy"),
     Class("legal-content"), ClassContains("terms"), ClassContains("privacy"),
     ClassContains("policy") >>

RECURSIVE BackgroundSelectorLoop(_, _)
\* the for loop over selectors: content after it, from selector k on
BackgroundSelectorLoop(doc, k) ==
  IF k > Len(selectors) THEN <<>>
  ELSE LET el == QuerySelector(doc, selectors[k])
       IN IF el # 0 /\ Len(Trim(doc[el].text)) > MinContentLength
          THEN doc[el].text
          ELSE BackgroundSelectorLoop(doc, k + 1)

ExtractTextContent(doc) ==
  LET found == BackgroundSelectorLoop(doc, 1)
      bodyText == BodyText(doc)
      content == IF found = <<>> \/ Len(Trim(found)) < MinContentLength
                 THEN (IF Len(Trim(bodyText)) > MinContentLength THEN bodyText ELSE found)
                 ELSE found
  IN Substring(Trim(content), MaxBackgroundLength)

BackgroundExtract(s) ==
  [text |-> ExtractTextContent(s.doc), url |-> s.url, title |-> s.title]

(***************************************************************************)
(* The snapshots of the model.                                             *)
(***************************************************************************)
\* the number of elements of a document
MaxElements == 2

Repeat(t, n) == [i \in 1..(n * Len(t)) |-> t[((i - 1) % Len(t)) + 1]] \o <<>>

\* 'https://a.io/Legal/terms-of-service'
urlLegal ==
  <<"h","t","t","p","s",":","/","/","a",".","i","o","/","L","e","g","a","l","/","t","e","r","m","s","-","o","f","-","s","e","r","v","i","c","e">>

\* 'https://a.io/privacy_policy'
urlPrivacy ==
  <<"h","t","t","p","s",":","/","/","a",".","i","o","/","p","r","i","v","a","c","y","_","p","o","l","i","c","y">>

\* 'Terms of Service - Acme'
titleTerms ==
  <<"T","e","r","m","s"," ","o","f"," ","S","e","r","v","i","c","e"," ","-"," ","A","c","m","e">>

\* 'Privacy Policy hereby agree Privacy Policy'
textScenario ==
  <<"P","r","i","v","a","c","y"," ","P","o","l","i","c","y"," ","h","e","r","e","b","y"," ","a","g","r","e","e"," ","P","r","i","v","a","c","y"," ","P","o","l","i","c","y">>

\* 'Hi  there'
textShort ==
  <<"H","i"," "," ","t","h","e","r","e">>

\* 'Intro 1. Terms of use apply. Section 2'
textStructure ==
  <<"I","n","t","r","o"," ","1","."," ","T","e","r","m","s"," ","o","f"," ","u","s","e"," ","a","p","p","l","y","."," ","S","e","c","t","i","o","n"," ","2">>

\* 'Privacy Policy'
textHeading ==
  <<"P","r","i","v","a","c","y"," ","P","o","l","i","c","y">>

\* 'short                  \n'
textPadded ==
  <<"s","h","o","r","t"," "," "," "," "," "," "," "," "," "," "," "," "," "," "," "," "," "," ","\n">>

\* ten four-letter words, a space after each
textWords == Repeat(<<"a", "b", "c", "d", " ">>, 10)

\* "user agreement " seventeen times
textLegal == Repeat(tcIndicators[4] \o <<" ">>, 17)

Element(tag, id, class, text) ==
  [tag |-> tag, id |-> id, class |-> class, role |-> "", text |-> text]

Elements ==
  { Element("main", "", "", textScenario),
    Element("main", "", "", textShort),
    Element("article", "", "", textWords),
    Element("div", "", "legal", textShort),
    Element("div", "", "content", textPadded),
    Element("div", "main-content", "", textShort),
    Element("h1", "", "", textHeading),
    Element("p", "", "", textStructure),
    Element("p", "", "", textLegal) }

Docs == UNION {[1..n -> Elements] : n \in 0..MaxElements}

Urls == {<<>>, urlLegal, urlPrivacy}

Titles == {<<>>, titleTerms}

\* every URL and title with the documents of at most one element, and every document
\* with the empty URL and title
Snapshots ==
  {s \in [url : Urls, title : Titles, doc : Docs] :
     Len(s.doc) <= 1 \/ (s.url = <<>> /\ s.title = <<>>)}

(***************************************************************************)
(* The pages a popup can be opened on.                                     *)
(***************************************************************************)
\* 'https://www.example.com/legal/terms-of-service'
urlTermsOfService ==
  <<"h","t","t","p","s",":","/","/","w","w","w",".","e","x","a","m","p","l","e",".","c","o","m","/","l","e","g","a","l","/","t","e","r","m","s","-","o","f","-","s","e","r","v","i","c","e">>

\* 'https://www.example.com/legal/terms-of-use'
urlTermsOfUse ==
  <<"h","t","t","p","s",":","/","/","w","w","w",".","e","x","a","m","p","l","e",".","c","o","m","/","l","e","g","a","l","/","t","e","r","m","s","-","o","f","-","u","s","e">>

\* 'https://a.io/'
urlHome == <<"h","t","t","p","s",":","/","/","a",".","i","o","/">>

\* 'chrome://extensions'
urlChrome == <<"c","h","r","o","m","e",":","/","/","e","x","t","e","n","s","i","o","n","s">>

\* 'https://addons.mozilla.org/terms-of-use'
urlStore ==
  <<"h","t","t","p","s",":","/","/","a","d","d","o","n","s",".","m","o","z","i","l","l","a",".","o","r","g","/","t","e","r","m","s","-","o","f","-","u","s","e">>

Pages ==
  << [url |-> urlTermsOfService, title |-> titleTerms,
      doc |-> <<Element("main", "", "", textScenario)>>],
     [url |-> urlTermsOfUse, title |-> titleTerms,
      doc |-> <<Element("p", "", "", textStructure)>>],
     [url |-> urlHome, title |-> <<>>, doc |-> <<Element("main", "", "", textShort)>>],
     [url |-> urlChrome, title |-> <<>>, doc |-> <<>>],
     [url |-> urlStore, title |-> titleTerms, doc |-> <<Element("h1", "", "", textHeading)>>] >>

(***************************************************************************)
(* The summary cache: chrome.storage.local, keyed by an encoding of the    *)
(* URL (popup.js 38 and 65, background.js 207 and 230).                    *)
(***************************************************************************)
\* the printable ASCII characters, from code 32 (space) to code 126 (~); the double
\* quote, the backslash and the backtick, which no URL of the model holds, are
\* spelled out
Ascii ==
  <<" ","!","quote","#","$","%","&","'","(",")","*","+",",","-",".","/","0","1","2","3",
    "4","5","6","7","8","9",":",";","<","=",">","?","@","A","B","C","D","E","F","G",
    "H","I","J","K","L","M","N","O","P","Q","R","S","T","U","V","W","X","Y","Z","[",
    "backslash","]","^","_","backtick","a","b","c","d","e","f","g","h","i","j","k","l","m","n","o",
    "p","q","r","s","t","u","v","w","x","y","z","{","|","}","~">>

\* String.prototype.charCodeAt, for the characters of Ascii
CharCode(c) == 31 + (CHOOSE i \in 1..Len(Ascii) : Ascii[i] = c)

\* the base64 alphabet of btoa
Base64Alphabet ==
  <<"A","B","C","D","E","F","G","H","I","J","K","L","M","N","O","P","Q","R","S","T",
    "U","V","W","X","Y","Z","a","b","c","d","e","f","g","h","i","j","k","l","m","n",
    "o","p","q","r","s","t","u","v","w","x","y","z","0","1","2","3","4","5","6","7",
    "8","9","+","/">>

\* btoa: every three bytes become four characters of the alphabet, the last group
\* padded with "="
Btoa(t) ==
  LET n == Len(t)
      byte(i) == IF i <= n THEN CharCode(t[i]) ELSE 0
      char(k) ==
        LET g == (k - 1) \div 4
            j == (k - 1) % 4
            v == byte(3 * g + 1) * 65536 + byte(3 * g + 2) * 256 + byte(3 * g + 3)
            sextet == CASE j = 0 -> v \div 262144
                        [] j = 1 -> (v \div 4096) % 64
                        [] j = 2 -> (v \div 64) % 64
                        [] j = 3 -> v % 64
        IN IF (j = 2 /\ 3 * g + 2 > n) \/ (j = 3 /\ 3 * g + 3 > n) THEN "="
           ELSE Base64Alphabet[sextet + 1]
  IN [k \in 1..(4 * ((n + 2) \div 3)) |-> char(k)] \o <<>>

\* the characters encodeURIComponent leaves as they are
Unreserved ==
  UpperCase \cup {UpperToLower[c] : c \in UpperCase} \cup Digits
    \cup {"-", "_", ".", "!", "~", "*", "'", "(", ")"}

HexDigits == <<"0","1","2","3","4","5","6","7","8","9","A","B","C","D","E","F">>

\* encodeURIComponent, for the characters of Ascii: every other character becomes
\* % and the two hexadecimal digits of its code
RECURSIVE EncodeURIComponent(_)
EncodeURIComponent(t) ==
  IF t = <<>> THEN <<>>
  ELSE LET c == Head(t)
           code == CharCode(c)
       IN (IF c \in Unreserved THEN <<c>>
           ELSE <<"%", HexDigits[(code \div 16) + 1], HexDigits[(code % 16) + 1]>>)
            \o EncodeURIComponent(Tail(t))

\* the number of characters of the encoding that the key keeps: slice(0, 50)
KeyLength == 50

\* 'summary_'
keyPrefix == <<"s","u","m","m","a","r","y","_">>

\* popup.js 38 and 65: `summary_${btoa(tab.url).slice(0, 50)}`
PopupCacheKey(url) == keyPrefix \o Substring(Btoa(url), KeyLength)

\* background.js 207 and 230: `summary_${btoa(encodeURIComponent(url)).slice(0, 50)}`
BackgroundCacheKey(url) == keyPrefix \o Substring(Btoa(EncodeURIComponent(url)), KeyLength)

(***************************************************************************)
(* The popup (popup.js 1-91 and 181-213, generateAnalysis 344-396).        *)
(***************************************************************************)
\* popup.js 183-190
restrictedProtocols ==
  << <<"c","h","r","o","m","e",":","/","/">>,
     <<"c","h","r","o","m","e","-","e","x","t","e","n","s","i","o","n",":","/","/">>,
     <<"m","o","z","-","e","x","t","e","n","s","i","o","n",":","/","/">>,
     <<"e","d","g","e",":","/","/">>,
     <<"a","b","o","u","t",":">>,
     <<"f","i","l","e",":","/","/">> >>

\* popup.js 192-196
restrictedDomains ==
  << <<"c","h","r","o","m","e",".","g","o","o","g","l","e",".","c","o","m","/","w","e","b","s","t","o","r","e">>,
     <<"a","d","d","o","n","s",".","m","o","z","i","l","l","a",".","o","r","g">>,
     <<"m","i","c","r","o","s","o","f","t","e","d","g","e",".","m","i","c","r","o","s","o","f","t",".","c","o","m">> >>

\* String.prototype.startsWith
StartsWith(t, p) == MatchAt(t, p, 1)

\* a slip: only the protocols are checked
canAnalyzePageProtocolsOnly(url) ==
  ~\E k \in 1..Len(restrictedProtocols) : StartsWith(url, restrictedProtocols[k])

\* popup.js 182-213
canAnalyzePage(url) ==
  /\ ~\E k \in 1..Len(restrictedProtocols) : StartsWith(url, restrictedProtocols[k])
  /\ ~\E k \in 1..Len(restrictedDomains) : Includes(url, restrictedDomains[k])

\* what detectAndExtractTC returns when injected into each page
Detection == [i \in 1..Len(Pages) |-> DetectAndExtractTC(Pages[i]).returned]

\* the popup's elements as popup.html (which is not part of the sources) sets them:
\* "html" stands for a property no script has assigned yet
InitialUi ==
  [statusClass |-> "html", statusText |-> "html", statusDisplay |-> "html",
   loadingDisplay |-> "html", contentDisplay |-> "html", btn |-> "html",
   summary |-> <<>>]

\* popup.js 82-91
showLoading(u, show) ==
  [u EXCEPT !.statusDisplay = IF show THEN "none" ELSE "block",
            !.loadingDisplay = IF show THEN "block" ELSE "none",
            !.btn = IF show THEN "disabled" ELSE "enabled"]

\* popup.js 93-173: the analysis is rendered into the summary element, the content
\* element is shown and loading ends
displayAnalysis(u, analysis) ==
  showLoading([u EXCEPT !.summary = <<analysis>>, !.contentDisplay = "block"], FALSE)

\* popup.js 17-19, 33-35, 44-46 and 50-52: the status line and the button
SetStatus(u, class, text, btn) ==
  [u EXCEPT !.statusClass = class, !.statusText = text, !.btn = btn]

\* popup.js 69-74: the catch block of the click handler
ClickFailed(u) ==
  showLoading([u EXCEPT !.statusClass = "error", !.statusText = "analysis-failed"], FALSE)

\* the analysis objects: what the backend finds in a page's text, with the summary
\* of /summarize ("summary") or the stand-in text of the fallback ("unavailable")
Analysis(summary, page) == [summary |-> summary, of |-> page]

\* the ways a backend request can end; popup.js 346-362: fetch rejects, the status is
\* not OK, the body is no JSON, the body holds an error field
Outcomes == {"ok", "network-error", "http-error", "bad-json", "error-field"}

\* the keys of the model's URLs, as the popup and as the background derive them
PopupKeys == [i \in 1..Len(Pages) |-> PopupCacheKey(Pages[i].url)]
BackgroundKeys == [i \in 1..Len(Pages) |-> BackgroundCacheKey(Pages[i].url)]
CacheKeys ==
  {PopupKeys[i] : i \in 1..Len(Pages)} \cup {BackgroundKeys[i] : i \in 1..Len(Pages)}

\* a stored value; the popup stores the analysis itself, which has no timestamp and
\* no url (popup.js 66), the background wraps it (background.js 208-212)
\* (writtenAt and writtenFor, which no code reads, are the time of the write and the
\* page whose URL the writer derived the key from)
PopupEntry(analysis, page, time) ==
  [summary |-> analysis.summary, of |-> analysis.of, timestamp |-> <<>>, url |-> <<>>,
   writtenAt |-> time, writtenFor |-> page]
BackgroundEntry(analysis, page, time) ==
  [summary |-> analysis.summary, of |-> analysis.of, timestamp |-> <<time>>,
   url |-> <<Pages[page].url>>, writtenAt |-> time, writtenFor |-> page]

(***************************************************************************)
(* The popup's handlers.  A call of generateAnalysis in progress is a      *)
(* record [stage, text, calls]: the endpoint it waits for, the text it was *)
(* given and the requests it has made, each with how it ended.             *)
(***************************************************************************)
InitPopup ==
  /\ tab = 0
  /\ pc = "closed"
  /\ ui = InitialUi
  /\ currentPageData = <<>>
  /\ flights = <<>>
  /\ lastClick = <<>>

\* popup.js 1-21 and 25: the popup opens on the active tab; on a page that cannot be
\* analysed the handler returns before it injects anything or adds a listener
PopupOpen ==
  /\ pc = "closed"
  /\ \E i \in 1..Len(Pages) :
       /\ tab' = i
       /\ IF ~canAnalyzePage(Pages[i].url)
          THEN /\ ui' = SetStatus(ui, "not-found", "cannot-analyze", "disabled")
               /\ pc' = "restricted"
          ELSE /\ ui' = ui
               /\ pc' = "injecting"
  /\ UNCHANGED <<currentPageData, flights, lastClick, engineVars, cacheVars, msg>>
  /\ UNCHANGED contentVars

\* popup.js 25-56: the injected detection answers (or executeScript or the cache read
\* throws), the status is set, a cached summary is displayed, and the click listener
\* is added
PopupDetected ==
  /\ pc = "injecting"
  /\ \E outcome \in {"result", "inject-throws", "storage-throws"} :
       IF outcome = "inject-throws"
       THEN /\ currentPageData' = <<>>
            /\ ui' = SetStatus(ui, "error", "detect-error", "disabled")
       ELSE /\ currentPageData' = <<Detection[tab]>>
            /\ IF Detection[tab].isTC
               THEN LET found == SetStatus(ui, "found", "found", "enabled")
                        cached == storage[PopupKeys[tab]]
                    IN IF outcome = "storage-throws"
                       THEN ui' = SetStatus(found, "error", "detect-error", "disabled")
                       ELSE IF cached # <<>>
                       THEN ui' = displayAnalysis(found, Analysis(cached[1].summary, cached[1].of))
                       ELSE ui' = found
               ELSE /\ outcome = "result"
                    /\ ui' = SetStatus(ui, "not-found", "none-detected", "disabled")
  /\ pc' = "listening"
  /\ UNCHANGED <<tab, flights, lastClick, engineVars, cacheVars, msg>>
  /\ UNCHANGED contentVars

\* popup.js 56-62 and 344-352: a click on the summarize button, which a disabled button
\* does not deliver; generateAnalysis posts the text to /summarize
Click ==
  /\ pc = "listening"
  /\ ui.btn # "disabled"
  /\ IF currentPageData = <<>> \/ ~currentPageData[1].isTC
     THEN UNCHANGED <<ui, flights, lastClick>>
     ELSE /\ ui' = showLoading(ui, TRUE)
          /\ flights' = Append(flights, [stage |-> "/summarize",
                                         text |-> currentPageData[1].text,
                                         calls |-> <<>>])
          /\ lastClick' = <<>>
  /\ UNCHANGED <<tab, pc, currentPageData, engineVars, cacheVars, msg>>
  /\ UNCHANGED contentVars

\* popup.js 62-74: generateAnalysis has returned; the analysis is stored under the
\* tab's key and displayed, or storage.set throws and the catch block runs
Finish(f, calls, analysis, stored) ==
  /\ flights' = SubSeq(flights, 1, f - 1) \o SubSeq(flights, f + 1, Len(flights))
  /\ IF stored
     THEN /\ storage' = [storage EXCEPT ![PopupKeys[tab]] = <<PopupEntry(analysis, tab, now)>>]
          /\ ui' = displayAnalysis(ui, analysis)
     ELSE /\ storage' = storage
          /\ ui' = ClickFailed(ui)
  /\ lastClick' = <<[calls |-> calls, returned |-> <<analysis>>, stored |-> stored]>>

\* popup.js 346-380: the answer to /summarize; when it is no success the text is
\* posted to /categories-only
SummarizeResponse ==
  /\ \E f \in 1..Len(flights), outcome \in Outcomes, stored \in BOOLEAN :
       /\ flights[f].stage = "/summarize"
       /\ LET calls == Append(flights[f].calls,
                              [endpoint |-> "/summarize", text |-> flights[f].text,
                               outcome |-> outcome])
          IN IF outcome = "ok"
             THEN Finish(f, calls, Analysis("summary", tab), stored)
             ELSE /\ stored
                  /\ flights' = [flights EXCEPT ![f] = [stage |-> "/categories-only",
                                                        text |-> flights[f].text,
                                                        calls |-> calls]]
                  /\ UNCHANGED <<ui, lastClick, storage>>
  /\ UNCHANGED <<tab, pc, currentPageData, engineVars, now, msg>>
  /\ UNCHANGED contentVars

\* popup.js 374-394 and 69-74: the answer to /categories-only; any answer with an OK
\* status whose body is JSON is returned (an error field is not looked at, and the
\* body's missing categories become {}); otherwise the first error is thrown again and
\* the click handler's catch block runs
CategoriesResponse ==
  /\ \E f \in 1..Len(flights), outcome \in Outcomes, stored \in BOOLEAN :
       /\ flights[f].stage = "/categories-only"
       /\ LET calls == Append(flights[f].calls,
                              [endpoint |-> "/categories-only", text |-> flights[f].text,
                               outcome |-> outcome])
          IN IF outcome \in {"ok", "error-field"}
             THEN Finish(f, calls,
                         Analysis("unavailable", IF outcome = "ok" THEN tab ELSE 0), stored)
             ELSE /\ stored
                  /\ flights' = SubSeq(flights, 1, f - 1)
                                  \o SubSeq(flights, f + 1, Len(flights))
                  /\ ui' = ClickFailed(ui)
                  /\ lastClick' = <<[calls |-> calls, returned |-> <<>>, stored |-> FALSE]>>
                  /\ storage' = storage
  /\ UNCHANGED <<tab, pc, currentPageData, engineVars, now, msg>>
  /\ UNCHANGED contentVars

\* the popup is closed: its document, its handlers and its requests go with it
PopupClose ==
  /\ pc # "closed"
  /\ tab' = 0
  /\ pc' = "closed"
  /\ ui' = InitialUi
  /\ currentPageData' = <<>>
  /\ flights' = <<>>
  /\ lastClick' = <<>>
  /\ UNCHANGED <<engineVars, cacheVars, msg>>
  /\ UNCHANGED contentVars

(***************************************************************************)
(* The cache's other users: the background's cacheSummary and              *)
(* getCachedSummary (background.js 202-246), the daily cleanup (248-274)   *)
(* and the options page's Clear Cache (options.js 26-56).  The clock.      *)
(***************************************************************************)
\* background.js 237: 24 * 60 * 60 * 1000 ms, in hours
CacheValidity == 24

\* background.js 257: 7 * 24 * 60 * 60 * 1000 ms, in hours
CleanupAge == 168

\* the times of the model, in hours since 1970: the first, then half a day, a day and
\* seven and a half days later
Times == {12, 24, 36, 192}

InitCache ==
  /\ storage = [k \in CacheKeys |-> <<>>]
  /\ now = CHOOSE t \in Times : \A u \in Times : t <= u

Tick ==
  /\ \E t \in Times : t > now /\ now' = t
  /\ UNCHANGED <<engineVars, popupVars, storage, msg>>
  /\ UNCHANGED contentVars

\* String.prototype.startsWith('summary_')
IsSummaryKey(key) == StartsWith(key, keyPrefix)

\* background.js 257-263: items[key].timestamp && items[key].timestamp < oneWeekAgo
\* (a timestamp of 0 is falsy)
IsOld(entry, time) ==
  /\ entry.timestamp # <<>>
  /\ entry.timestamp[1] # 0
  /\ entry.timestamp[1] < time - CleanupAge

\* background.js 248-274, run by the cleanupCache alarm (277-289); a run whose storage
\* calls succeed: when one throws, the catch block logs it and nothing is removed
cleanupOldCache ==
  /\ storage' = [k \in CacheKeys |->
                   IF storage[k] # <<>> /\ IsSummaryKey(k) /\ IsOld(storage[k][1], now)
                   THEN <<>> ELSE storage[k]]
  /\ UNCHANGED <<engineVars, popupVars, now, msg>>
  /\ UNCHANGED contentVars

\* options.js 26-56: the user confirms Clear Cache
clearCache ==
  /\ storage' = [k \in CacheKeys |-> IF IsSummaryKey(k) THEN <<>> ELSE storage[k]]
  /\ UNCHANGED <<engineVars, popupVars, now, msg>>
  /\ UNCHANGED contentVars

\* background.js 237: (Date.now() - cached.timestamp) < 24 h; without a timestamp the
\* difference is NaN and the comparison false
IsValid(entry, time) ==
  entry.timestamp # <<>> /\ time - entry.timestamp[1] < CacheValidity

(***************************************************************************)
(* The onMessage listeners (background.js 61-92, content.js 207-213).  A   *)
(* message is [to, action, page, pending, returned, responses, reply]:     *)
(* the listener that got it, the request, the asynchronous work still to   *)
(* come, what the listener returned, how often sendResponse has been       *)
(* called and with what.                                                   *)
(***************************************************************************)
InitMessages == msg = <<>>

Message(to, request, pending, returned, reply) ==
  [to |-> to, action |-> request.action, page |-> request.page, pending |-> pending,
   returned |-> returned, responses |-> Len(reply), reply |-> reply]

Reply(kind, summary, of) == [kind |-> kind, summary |-> summary, of |-> of]

NoMessagePending == IF msg = <<>> THEN TRUE ELSE msg[1].pending = "none"

\* background.js 61-92: the listener; the handlers it starts answer later
BackgroundReceive(request) ==
  /\ NoMessagePending
  /\ msg' =
       CASE request.action = "getTCAnalysis" ->
              IF ~request.hasTab
              THEN <<Message("background", request, "none", "undefined",
                             <<Reply("error", "", 0)>>)>>
              ELSE <<Message("background", request, "handleTCAnalysis", "true", <<>>)>>
         [] request.action = "cacheSummary" ->
              <<Message("background", request, "cacheSummary", "true", <<>>)>>
         [] request.action = "getCachedSummary" ->
              <<Message("background", request, "getCachedSummary", "true", <<>>)>>
         [] OTHER ->
              <<Message("background", request, "none", "undefined",
                        <<Reply("error", "", 0)>>)>>
  /\ UNCHANGED <<engineVars, popupVars, cacheVars>>
  /\ UNCHANGED contentVars

\* sendResponse is called
Respond(reply) ==
  msg' = <<[msg[1] EXCEPT !.pending = "none", !.responses = @ + 1,
                          !.reply = Append(@, reply)]>>

\* background.js 134-200: the extraction injected into the sender's tab has answered,
\* or executeScript has thrown
handleTCAnalysis ==
  /\ msg # <<>> /\ msg[1].pending = "handleTCAnalysis"
  /\ \E thrown \in BOOLEAN :
       LET result == BackgroundExtract(Pages[msg[1].page])
       IN IF ~thrown /\ result.text # <<>>
          THEN Respond(Reply("result", "", msg[1].page))
          ELSE Respond(Reply("error", "", 0))
  /\ UNCHANGED <<engineVars, popupVars, cacheVars>>
  /\ UNCHANGED contentVars

\* background.js 74-78 and 202-221: the entry is stored under the URL's key, with the
\* time, and success is answered; or storage.set throws and the failure is answered
cacheSummary ==
  /\ msg # <<>> /\ msg[1].pending = "cacheSummary"
  /\ \E thrown \in BOOLEAN :
       IF thrown
       THEN /\ Respond(Reply("failure", "", 0))
            /\ storage' = storage
       ELSE /\ Respond(Reply("success", "", 0))
            /\ storage' =
                 [storage EXCEPT ![BackgroundKeys[msg[1].page]] =
                    <<BackgroundEntry(Analysis("summary", msg[1].page), msg[1].page, now)>>]
  /\ UNCHANGED <<engineVars, popupVars, now>>
  /\ UNCHANGED contentVars

\* background.js 80-82 and 223-246: the summary of a valid entry is answered, null
\* otherwise, also when storage.get throws
getCachedSummary ==
  /\ msg # <<>> /\ msg[1].pending = "getCachedSummary"
  /\ \E thrown \in BOOLEAN :
       LET cached == storage[BackgroundKeys[msg[1].page]]
       IN IF ~thrown /\ cached # <<>> /\ IsValid(cached[1], now)
          THEN Respond(Reply("summary", cached[1].summary, cached[1].of))
          ELSE Respond(Reply("null", "", 0))
  /\ UNCHANGED <<engineVars, popupVars, cacheVars>>
  /\ UNCHANGED contentVars

\* content.js 207-213: getTCContent is answered at once; the listener returns true
\* whatever the action
ContentReceive(request) ==
  /\ NoMessagePending
  /\ msg' = IF request.action = "getTCContent"
            THEN <<Message("content", request, "none", "true",
                           <<Reply("analysis", "", request.page)>>)>>
            ELSE <<Message("content", request, "none", "true", <<>>)>>
  /\ UNCHANGED <<engineVars, popupVars, cacheVars>>
  /\ UNCHANGED contentVars

\* the requests of the model: those the listeners know, and one they do not
\* (content.js 101-103 sends openPopup)
Request(action, page, hasTab) == [action |-> action, page |-> page, hasTab |-> hasTab]

\* the requests to store and to look up the summaries of some pages
CacheRequests(pages) ==
  {Request(a, i, TRUE) : a \in {"cacheSummary", "getCachedSummary"}, i \in pages}

BackgroundRequests ==
  CacheRequests({1, 2})
    \cup {Request("getTCAnalysis", i, t) : i \in 1..Len(Pages), t \in BOOLEAN}
    \cup {Request("openPopup", 1, TRUE)}

ContentRequests == {Request(a, i, TRUE) : a \in {"getTCContent", "openPopup"}, i \in 1..Len(Pages)}

(***************************************************************************)
(* The content script's page detection (content.js 8-115 and 215-232):     *)
(* detectTCPage at load and, debounced, after the MutationObserver has     *)
(* reported changes of the body's tree; the indicator it adds.  Time is    *)
(* counted in ticks of half a second.                                      *)
(***************************************************************************)
\* content.js 28-30
urlIndicators ==
  << <<"t","e","r","m","s">>,
     <<"p","r","i","v","a","c","y">>,
     <<"l","e","g","a","l">>,
     <<"p","o","l","i","c","y">>,
     <<"a","g","r","e","e","m","e","n","t">>,
     <<"e","u","l","a">> >>

\* content.js 11-20: each pattern is its words, with \s+ between them and the flag i
tcPatterns ==
  << << <<"t","e","r","m","s">>, <<"o","f">>, <<"s","e","r","v","i","c","e">> >>,
     << <<"t","e","r","m","s">>, <<"o","f">>, <<"u","s","e">> >>,
     << <<"t","e","r","m","s">>, <<"a","n","d">>, <<"c","o","n","d","i","t","i","o","n","s">> >>,
     << <<"u","s","e","r">>, <<"a","g","r","e","e","m","e","n","t">> >>,
     << <<"p","r","i","v","a","c","y">>, <<"p","o","l","i","c","y">> >>,
     << <<"e","n","d">>, <<"u","s","e","r">>, <<"l","i","c","e","n","s","e">> >>,
     << <<"s","e","r","v","i","c","e">>, <<"a","g","r","e","e","m","e","n","t">> >>,
     << <<"l","e","g","a","l">>, <<"n","o","t","i","c","e">> >> >>

RECURSIVE MatchWords(_, _, _)
\* the words, with one or more whitespace characters between them, occur in lt at i
MatchWords(lt, words, i) ==
  IF ~MatchAt(lt, words[1], i) THEN FALSE
  ELSE IF Len(words) = 1 THEN TRUE
  ELSE LET j == i + Len(words[1])
           w == RunLength(lt, Whitespace, j)
       IN w > 0 /\ MatchWords(lt, Tail(words), j + w)

\* RegExp.prototype.test of a pattern of tcPatterns
Test(pattern, t) ==
  LET lt == ToLowerCase(t)
  IN \E i \in 1..Len(lt) : MatchWords(lt, pattern, i)

\* content.js 24-59: what one run of detectTCPage finds in the snapshot it is given,
\* in the URL, in the title or in an h1, h2 or h3 heading
Signal(s) ==
  \/ \E k \in 1..Len(urlIndicators) : Includes(ToLowerCase(s.url), urlIndicators[k])
  \/ \E k \in 1..Len(tcPatterns) : Test(tcPatterns[k], ToLowerCase(s.title))
  \/ \E e \in 1..Len(s.doc) :
       /\ s.doc[e].tag \in {"h1", "h2", "h3"}
       /\ \E k \in 1..Len(tcPatterns) : Test(tcPatterns[k], ToLowerCase(s.doc[e].text))

\* content.js 226: 1000 ms, in ticks
DetectionDelay == 2

\* content.js 114: 10000 ms, in ticks
HideDelay == 20

\* the changes the page makes to itself after the script has started
MaxMutations == 2

\* 'Terms  of' and, on the next line, 'Use'
textSpaced ==
  <<"T","e","r","m","s"," "," ","o","f","\n","U","s","e">>

\* the states of the page the content script runs in: no signal, a signal in the URL,
\* in the title, in an h1, in an h2 with wide spacing, and a heading too low to count
ContentSnapshots ==
  { [url |-> urlHome, title |-> <<>>, doc |-> <<Element("main", "", "", textShort)>>],
    [url |-> urlPrivacy, title |-> <<>>, doc |-> <<Element("main", "", "", textShort)>>],
    [url |-> urlHome, title |-> titleTerms, doc |-> <<Element("main", "", "", textShort)>>],
    [url |-> urlHome, title |-> <<>>, doc |-> <<Element("h1", "", "", textHeading)>>],
    [url |-> urlHome, title |-> <<>>, doc |-> <<Element("h2", "", "", textSpaced)>>],
    [url |-> urlHome, title |-> <<>>, doc |-> <<Element("h4", "", "", textHeading)>>] }

\* Signal on each state of the page
SignalOf == [s \in ContentSnapshots |-> Signal(s)]

\* the state of a content script that has not run
InitContentScript ==
  /\ script = "unloaded"
  /\ isLikelyTC = FALSE
  /\ indicatorElements = <<>>
  /\ detectionTimeout = 0
  /\ timers = <<>>
  /\ records = FALSE
  /\ quiet = DetectionDelay
  /\ budget = MaxMutations
  /\ lastRun = <<>>
  /\ everSignal = FALSE

\* an id no pending timer has and detectionTimeout does not hold
FreshTimer(ts) ==
  CHOOSE n \in 1..(Len(ts) + 2) :
    /\ n # detectionTimeout /\ \A k \in 1..Len(ts) : ts[k].id # n
    /\ \A m \in 1..(n - 1) : m = detectionTimeout \/ \E k \in 1..Len(ts) : ts[k].id = m

\* a name for a new element: one no indicator in the document and no timer has
FreshElement(ts) ==
  CHOOSE n \in 1..(Len(ts) + Len(indicatorElements) + 1) :
    /\ \A k \in 1..Len(ts) : ts[k].el # n
    /\ \A k \in 1..Len(indicatorElements) : indicatorElements[k].el # n

Timer(id, kind, remaining, el) == [id |-> id, kind |-> kind, remaining |-> remaining, el |-> el]

\* a slip: the indicator is added without looking for one
addTCIndicatorUnguarded(observing, ts) ==
  LET el == FreshElement(ts)
  IN [indicatorElements |-> Append(indicatorElements, [el |-> el, dimmed |-> FALSE]),
      timers |-> Append(ts, Timer(FreshTimer(ts), "hide", HideDelay, el)),
      records |-> (records \/ observing)]

\* content.js 68-115: unless the document has an element with the indicator's id, one
\* is appended to the body (which an observer in place records) and the timer that
\* dims it is set; ts are the timers pending when it is called.  The result is the
\* document's indicators, the timers and the observer's records after the call
addTCIndicator(observing, ts) ==
  IF indicatorElements # <<>>
  THEN [indicatorElements |-> indicatorElements, timers |-> ts, records |-> records]
  ELSE LET el == FreshElement(ts)
       IN [indicatorElements |-> Append(indicatorElements, [el |-> el, dimmed |-> FALSE]),
           timers |-> Append(ts, Timer(FreshTimer(ts), "hide", HideDelay, el)),
           records |-> (records \/ observing)]

\* content.js 22-66: one run of detectTCPage; lastRun and everSignal, which no code
\* reads, keep what the run found in its snapshot and what it concluded
detectTCPage(trigger, observing, ts) ==
  LET signal == SignalOf[snap]
      likely == isLikelyTC \/ signal
      after == IF likely
               THEN addTCIndicator(observing, ts)
               ELSE [indicatorElements |-> indicatorElements, timers |-> ts,
                     records |-> records]
  IN /\ isLikelyTC' = likely
     /\ indicatorElements' = after.indicatorElements
     /\ timers' = after.timers
     /\ records' = after.records
     /\ lastRun' = <<[trigger |-> trigger, signal |-> signal, detected |-> likely,
                      added |-> likely /\ indicatorElements = <<>>, quiet |-> quiet]>>
     /\ everSignal' = (everSignal \/ signal)

\* content.js 216-232: the script runs in its page.  While the document is loading it
\* waits for DOMContentLoaded, with the observer in place; otherwise it detects at
\* once, before the observer is created
ContentStart ==
  /\ script = "unloaded"
  /\ \E readyState \in {"loading", "complete"} :
       IF readyState = "loading"
       THEN /\ script' = "waiting"
            /\ UNCHANGED <<isLikelyTC, indicatorElements, timers, records, lastRun, everSignal>>
       ELSE /\ script' = "observing"
            /\ detectTCPage("load", FALSE, timers)
  /\ UNCHANGED <<snap, detectionTimeout, quiet, budget, otherVars>>

\* content.js 217: DOMContentLoaded
ContentLoaded ==
  /\ script = "waiting"
  /\ ~records
  /\ script' = "observing"
  /\ detectTCPage("load", TRUE, timers)
  /\ UNCHANGED <<snap, detectionTimeout, quiet, budget, otherVars>>

\* the page replaces the children of its body, with or without the indicator among
\* them, and may change its URL and title with them; the observer records it
PageRender ==
  /\ script # "unloaded"
  /\ budget > 0
  /\ budget' = budget - 1
  /\ \E s \in ContentSnapshots, keep \in BOOLEAN :
       /\ snap' = s
       /\ indicatorElements' = IF keep THEN indicatorElements ELSE <<>>
  /\ records' = TRUE
  /\ UNCHANGED <<script, isLikelyTC, detectionTimeout, timers, quiet, lastRun, everSignal,
                 otherVars>>

\* the page changes its URL (history.pushState) or its title, which are no children of
\* the body: the observer records nothing
PageRetitle ==
  /\ script # "unloaded"
  /\ budget > 0
  /\ budget' = budget - 1
  /\ \E s \in ContentSnapshots :
       /\ s.doc = snap.doc
       /\ s # snap
       /\ snap' = s
  /\ UNCHANGED <<script, isLikelyTC, indicatorElements, detectionTimeout, timers, records, quiet,
                 lastRun, everSignal, otherVars>>

\* a slip: the pending timer is left alone
clearTimeoutNothing(ts, id) == ts

\* clearTimeout(id)
clearTimeout(ts, id) == SelectSeq(ts, LAMBDA t : t.id # id)

\* content.js 223-226: the observer's callback, a microtask after the change
ObserverCallback ==
  /\ records
  /\ records' = FALSE
  /\ quiet' = 0
  /\ LET cleared == clearTimeout(timers, detectionTimeout)
         id == FreshTimer(cleared)
     IN /\ timers' = Append(cleared, Timer(id, "detect", DetectionDelay, 0))
        /\ detectionTimeout' = id
  /\ UNCHANGED <<snap, script, isLikelyTC, indicatorElements, budget, lastRun, everSignal, otherVars>>

\* the timer that is due first, 0 when none is; tasks run when no microtask is left
Due ==
  IF ~records /\ \E k \in 1..Len(timers) : timers[k].remaining = 0
  THEN CHOOSE k \in 1..Len(timers) :
         /\ timers[k].remaining = 0
         /\ \A j \in 1..(k - 1) : timers[j].remaining # 0
  ELSE 0

Without(ts, k) == SubSeq(ts, 1, k - 1) \o SubSeq(ts, k + 1, Len(ts))

\* content.js 226: the detection timer fires
DetectionTimerFires ==
  /\ Due # 0
  /\ timers[Due].kind = "detect"
  /\ detectTCPage("timer", TRUE, Without(timers, Due))
  /\ UNCHANGED <<snap, script, detectionTimeout, quiet, budget, otherVars>>

\* content.js 109-114: ten seconds after an indicator was added it is dimmed, if it is
\* still in a document; a change of its style is no change of the tree
HideTimerFires ==
  /\ Due # 0
  /\ timers[Due].kind = "hide"
  /\ indicatorElements' = [k \in 1..Len(indicatorElements) |->
                      IF indicatorElements[k].el = timers[Due].el
                      THEN [indicatorElements[k] EXCEPT !.dimmed = TRUE]
                      ELSE indicatorElements[k]] \o <<>>
  /\ timers' = Without(timers, Due)
  /\ UNCHANGED <<snap, script, isLikelyTC, detectionTimeout, records, quiet, budget, lastRun,
                 everSignal, otherVars>>

\* half a second passes: no microtask is left, no timer is due, and some timer is
\* pending
Elapse ==
  /\ ~records
  /\ timers # <<>>
  /\ \A k \in 1..Len(timers) : timers[k].remaining > 0
  /\ timers' = [k \in 1..Len(timers) |->
                  [timers[k] EXCEPT !.remaining = @ - 1]] \o <<>>
  /\ quiet' = Min(quiet + 1, DetectionDelay)
  /\ UNCHANGED <<snap, script, isLikelyTC, indicatorElements, detectionTimeout, records, budget,
                 lastRun, everSignal, otherVars>>

(***************************************************************************)
(* The state machine: a snapshot is captured, and each of the three call   *)
(* sites analyses it once, in any order.                                   *)
(***************************************************************************)
InitEngine ==
  /\ popupResult = <<>>
  /\ popupLog = <<>>
  /\ contentResult = <<>>
  /\ bgResult = <<>>

Init ==
  /\ snap \in Snapshots
  /\ InitEngine
  /\ InitPopup
  /\ InitCache
  /\ InitMessages
  /\ InitContentScript

\* popup.js 25-30: the popup injects detectAndExtractTC into the page
PopupDetect ==
  /\ popupResult = <<>>
  /\ LET run == DetectAndExtractTC(snap)
     IN /\ popupResult' = <<run.returned>>
        /\ popupLog' = <<run.logged>>
  /\ UNCHANGED <<snap, contentResult, bgResult, popupVars, cacheVars, msg>>
  /\ UNCHANGED contentVars

\* content.js 207-211: the content script answers getTCContent
ContentAnalyze ==
  /\ contentResult = <<>>
  /\ contentResult' = <<AnalyzeTCContent(snap.doc)>>
  /\ UNCHANGED <<snap, popupResult, popupLog, bgResult, popupVars, cacheVars, msg>>
  /\ UNCHANGED contentVars

\* background.js 141-190: the background injects the extraction into the tab
BackgroundAnalyze ==
  /\ bgResult = <<>>
  /\ bgResult' = <<BackgroundExtract(snap)>>
  /\ UNCHANGED <<snap, popupResult, popupLog, contentResult, popupVars, cacheVars, msg>>
  /\ UNCHANGED contentVars

Next == PopupDetect \/ ContentAnalyze \/ BackgroundAnalyze

Spec == Init /\ [][Next]_vars

(***************************************************************************)
(* The popup and the cache: popups open on the pages, one at a time, while *)
(* the background serves cache requests, the cleanup alarm fires and time  *)
(* passes.                                                                 *)
(***************************************************************************)
InitPopupCache ==
  /\ snap = Pages[1]
  /\ InitEngine
  /\ InitPopup
  /\ InitCache
  /\ InitMessages
  /\ InitContentScript

NextPopupCache ==
  \/ PopupOpen
  \/ PopupDetected
  \/ Click
  \/ SummarizeResponse
  \/ CategoriesResponse
  \/ PopupClose
  \/ \E r \in CacheRequests({1}) : BackgroundReceive(r)
  \/ cacheSummary
  \/ getCachedSummary
  \/ cleanupOldCache
  \/ clearCache
  \/ Tick

SpecPopupCache == InitPopupCache /\ [][NextPopupCache]_vars

(***************************************************************************)
(* The messages: the listeners of the background and of the content script *)
(* serve one message after the other, while the cleanup alarm fires and    *)
(* time passes.                                                            *)
(***************************************************************************)
NextMessages ==
  \/ \E r \in BackgroundRequests : BackgroundReceive(r)
  \/ handleTCAnalysis
  \/ cacheSummary
  \/ getCachedSummary
  \/ \E r \in ContentRequests : ContentReceive(r)
  \/ cleanupOldCache
  \/ Tick

SpecMessages == InitPopupCache /\ [][NextMessages]_vars

(***************************************************************************)
(* The content script in its page: the page changes itself a bounded       *)
(* number of times while the script detects, observes and re-detects.      *)
(* With fairness, the event loop goes on while it has something to run:    *)
(* the script is started, a document that is loading finishes loading, a   *)
(* callback that is due runs, time passes, a timer that is due fires.      *)
(***************************************************************************)
InitContent ==
  /\ snap \in ContentSnapshots
  /\ InitEngine
  /\ InitPopup
  /\ InitCache
  /\ InitMessages
  /\ InitContentScript

NextContent ==
  \/ ContentStart
  \/ ContentLoaded
  \/ PageRender
  \/ PageRetitle
  \/ ObserverCallback
  \/ DetectionTimerFires
  \/ HideTimerFires
  \/ Elapse

SpecContent == InitContent /\ [][NextContent]_vars

\* the steps of the script's event loop and of the clock
RunContent ==
  \/ ContentStart
  \/ ContentLoaded
  \/ ObserverCallback
  \/ DetectionTimerFires
  \/ HideTimerFires
  \/ Elapse

FairContent == InitContent /\ [][NextContent]_vars /\ WF_vars(RunContent)

(***************************************************************************)
(* The properties.                                                         *)
(***************************************************************************)
PopupDone == popupResult # <<>>
ContentDone == contentResult # <<>>
BackgroundDone == bgResult # <<>>

\* clamp(x, 0, 100)
Clamp(x) == IF x < 0 THEN 0 ELSE IF x > 100 THEN 100 ELSE x

\* the score of the analyzer's own patterns on the text it extracts
AnalyzerScoreOf(s) == AnalyzerScore(ExtractTCContent(s.doc))

\* C1: the confidence an analysis call returns is an integer from 0 to 100, in the
\* popup's detector and in the content script's analyzer.
C1_ScoreInRange ==
  /\ PopupDone => popupResult[1].confidence \in 0..100
  /\ ContentDone => contentResult[1].confidence \in 0..100

\* both call sites have answered 100 for one snapshot, the detector with sub-scores
\* that add up to more than 100
C1_Witness ==
  /\ PopupDone /\ ContentDone
  /\ popupLog[1].url + popupLog[1].title + popupLog[1].heading
       + Min(popupLog[1].content, 50) > 100
  /\ popupResult[1].confidence = 100
  /\ contentResult[1].confidence = 100

\* C2, as claimed: at every call site the confidence is
\* clamp(urlScore + titleScore + headingScore + min(contentScore, 50), 0, 100), so the
\* detector and the analyzer agree wherever their vocabularies find the same (here: no)
\* matches in the content.
C2_ClampedSumAtEverySite ==
  /\ PopupDone =>
       popupResult[1].confidence =
         Clamp(popupLog[1].url + popupLog[1].title + popupLog[1].heading
                 + Min(popupLog[1].content, 50))
  /\ ContentDone =>
       contentResult[1].confidence =
         Clamp(UrlScore(snap.url) + TitleScore(snap.title) + HeadingScore(snap.doc)
                 + Min(AnalyzerScoreOf(snap), 50))
  /\ (PopupDone /\ ContentDone /\ popupLog[1].content = 0 /\ AnalyzerScoreOf(snap) = 0) =>
       contentResult[1].confidence = popupResult[1].confidence

\* C2, amended: the detector's confidence is the clamped sum; the analyzer's confidence
\* is its content score alone as a percentage of 200, rounded and capped at 100.
C2_ClampedSumInDetector ==
  /\ PopupDone =>
       popupResult[1].confidence =
         Clamp(popupLog[1].url + popupLog[1].title + popupLog[1].heading
                 + Min(popupLog[1].content, 50))
  /\ ContentDone =>
       LET score == AnalyzerScoreOf(snap)
           confidence == contentResult[1].confidence
       IN IF score >= 200 THEN confidence = 100
          ELSE 2 * confidence - score \in {-1, 0, 1}

\* the two call sites disagree on one snapshot: the detector caps a content score above
\* 50 and adds URL or title points, the analyzer answers from the content alone
C2_Witness ==
  /\ PopupDone /\ ContentDone
  /\ popupLog[1].content > 50
  /\ popupLog[1].url + popupLog[1].title > 0
  /\ popupResult[1].confidence < 100
  /\ contentResult[1].confidence # popupResult[1].confidence

\* the text the claimed selection extracts from: that of the first selector, in
\* priority order, whose element exists with more than the minimum of trimmed text,
\* the body's when there is none
Qualifies(doc, sel) ==
  LET el == QuerySelector(doc, sel)
  IN el # 0 /\ Len(Trim(doc[el].text)) > MinContentLength

SelectedText(doc, sels) ==
  IF \E k \in 1..Len(sels) : Qualifies(doc, sels[k])
  THEN LET k == CHOOSE k \in 1..Len(sels) :
                  /\ Qualifies(doc, sels[k])
                  /\ \A j \in 1..(k - 1) : ~Qualifies(doc, sels[j])
       IN doc[QuerySelector(doc, sels[k])].text
  ELSE BodyText(doc)

\* the number of white-space-delimited tokens
Tokens(t) ==
  Cardinality({i \in 1..Len(t) :
                 /\ t[i] \notin Whitespace
                 /\ i = 1 \/ t[i - 1] \in Whitespace})

\* no container of the page has more than the minimum of text, nor has the body,
\* which is not empty
ShortPage(doc) ==
  /\ \A i \in 1..Len(doc) : Len(Trim(doc[i].text)) <= MinContentLength
  /\ Len(Trim(BodyText(doc))) \in 1..MinContentLength

\* C3, as claimed: at each call site the text comes from the first qualifying
\* selector's element and, when no selector qualifies, from the body, never from an
\* element that does not qualify (what the background answers on a short page is
\* C6's).
C3_ContainerSelection ==
  /\ PopupDone =>
       popupResult[1].text =
         Substring(Normalize(SelectedText(snap.doc, contentSelectors)), MaxTextLength)
  /\ ContentDone =>
       contentResult[1].content =
         Substring(StripPrefix(Normalize(SelectedText(snap.doc, analyzerSelectors))),
                   MaxTextLength)
  /\ (BackgroundDone /\ ~ShortPage(snap.doc)) =>
       bgResult[1].text =
         Substring(Trim(SelectedText(snap.doc, selectors)), MaxBackgroundLength)

\* C4: the returned text is never longer than the cap of its consumer.
C4_LengthCapped ==
  /\ PopupDone => Len(popupResult[1].text) <= MaxTextLength
  /\ ContentDone => Len(contentResult[1].content) <= MaxTextLength
  /\ BackgroundDone => Len(bgResult[1].text) <= MaxBackgroundLength

\* all three call sites have cut a text longer than their cap down to the cap
C4_Witness ==
  /\ PopupDone /\ ContentDone /\ BackgroundDone
  /\ Len(PopupMainContent(snap.doc)) > MaxTextLength
  /\ Len(ExtractTCContent(snap.doc)) > MaxTextLength
  /\ Len(Trim(BodyText(snap.doc))) > MaxBackgroundLength
  /\ Len(popupResult[1].text) = MaxTextLength
  /\ Len(contentResult[1].content) = MaxTextLength
  /\ Len(bgResult[1].text) = MaxBackgroundLength

\* C5, as claimed: normalizing the returned text again does not change it.
C5_ReturnedTextNormalized ==
  /\ PopupDone => Normalize(popupResult[1].text) = popupResult[1].text
  /\ ContentDone => Normalize(contentResult[1].content) = contentResult[1].content

\* C6, as claimed: on a short page every extraction returns the normalized body text,
\* and the word count is the number of its tokens.
C6_ShortPageBodyText ==
  ShortPage(snap.doc) =>
    /\ PopupDone => popupResult[1].text = Normalize(BodyText(snap.doc))
    /\ ContentDone =>
         /\ contentResult[1].content = Normalize(BodyText(snap.doc))
         /\ contentResult[1].wordCount = Tokens(contentResult[1].content)
    /\ BackgroundDone => Normalize(bgResult[1].text) = Normalize(BodyText(snap.doc))

EmptySnapshot == snap.url = <<>> /\ snap.title = <<>> /\ snap.doc = <<>>

\* C7: the empty snapshot scores 0, is no match and has the empty text, at every
\* call site.
C7_EmptySnapshot ==
  EmptySnapshot =>
    /\ PopupDone =>
         /\ popupResult[1].confidence = 0
         /\ popupResult[1].isTC = FALSE
         /\ popupResult[1].text = <<>>
    /\ ContentDone =>
         /\ contentResult[1].confidence = 0
         /\ contentResult[1].isTC = FALSE
         /\ contentResult[1].content = <<>>
    /\ BackgroundDone => bgResult[1].text = <<>>

\* the empty snapshot has been analysed at every call site
C7_Witness == EmptySnapshot /\ PopupDone /\ ContentDone /\ BackgroundDone

\* C8, as claimed: wordCount is the number of tokens of the returned text.
C8_WordCountOfReturnedText ==
  ContentDone => contentResult[1].wordCount = Tokens(contentResult[1].content)

\* C9: urlScore is 20 for every pair of an indicator and a separator (hyphen, none,
\* underscore) whose variant occurs in the lower-cased URL, a variant that several
\* separators produce counting once for each.
C9_UrlScoreCountsEveryVariant ==
  PopupDone =>
    popupLog[1].url =
      20 * Cardinality({pair \in (1..Len(tcIndicators)) \X {<<"-">>, <<>>, <<"_">>} :
                          Includes(ToLowerCase(snap.url),
                                   ReplaceWhitespace(tcIndicators[pair[1]], pair[2]))})

\* the URL .../Legal/terms-of-service: "legal" counts three times, "terms-of-service" once
C9_Witness ==
  /\ PopupDone
  /\ snap.url = urlLegal
  /\ popupLog[1].url = 80

\* the number of positions of the text at which pattern re matches, letter case
\* ignored: for patterns whose matches cannot overlap, the number of occurrences
Occurrences(text, re) ==
  Cardinality({i \in 1..Len(text) : MatchLength(text, ToLowerCase(text), re, i) > 0})

CountOf(text, phrase) == Occurrences(text, [kind |-> "alt", alts |-> <<phrase>>])

privacyPolicy == tcIndicators[5]
herebyAgree == legalPatterns[1]

\* text with "privacy policy" twice, "hereby agree" once and no other match of the
\* detector's patterns
DetectorScenario(text) ==
  /\ CountOf(text, privacyPolicy) = 2
  /\ CountOf(text, herebyAgree) = 1
  /\ Sum([k \in 1..Len(legalPatterns) |-> CountOf(text, legalPatterns[k])])
       + Sum([k \in 1..Len(structurePatterns) |-> Occurrences(text, structurePatterns[k])])
     = 3

\* the same of the analyzer's patterns
AnalyzerScenario(text) ==
  /\ CountOf(text, privacyPolicy) = 2
  /\ CountOf(text, herebyAgree) = 1
  /\ Sum([k \in 1..Len(indicators) |->
            Occurrences(text, [kind |-> "alt", alts |-> indicators[k].alts])])
     = 3

\* C10, as claimed: in the scenario contentScore is twice the weight of the
\* privacy-policy pattern plus 10, and min(contentScore, 50) is what it adds to the total.
C10_ScenarioScore ==
  /\ (PopupDone /\ DetectorScenario(PopupMainContent(snap.doc))) =>
       /\ popupLog[1].content = 2 * LegalWeight + 10
       /\ popupResult[1].confidence =
            Clamp(popupLog[1].url + popupLog[1].title + popupLog[1].heading
                    + Min(popupLog[1].content, 50))
  /\ (ContentDone /\ AnalyzerScenario(ExtractTCContent(snap.doc))) =>
       /\ AnalyzerScoreOf(snap) = 2 * indicators[3].weight + 10
       /\ contentResult[1].confidence = Clamp(Min(AnalyzerScoreOf(snap), 50))

\* C10, amended: in the scenario the detector's contentScore is 3 matches of weight 3,
\* 9, which it adds to the total; the analyzer's score is 2 * 10 + 10 = 30, and its
\* confidence is that as a percentage of 200: 15.
C10_ScenarioScorePerSite ==
  /\ (PopupDone /\ DetectorScenario(PopupMainContent(snap.doc))) =>
       /\ popupLog[1].content = 9
       /\ popupResult[1].confidence =
            Clamp(popupLog[1].url + popupLog[1].title + popupLog[1].heading + 9)
  /\ (ContentDone /\ AnalyzerScenario(ExtractTCContent(snap.doc))) =>
       /\ AnalyzerScoreOf(snap) = 30
       /\ contentResult[1].confidence = 15

\* both call sites have analysed a page whose main element holds the scenario's text
C10_Witness ==
  /\ PopupDone /\ ContentDone
  /\ DetectorScenario(PopupMainContent(snap.doc))
  /\ AnalyzerScenario(ExtractTCContent(snap.doc))
  /\ QuerySelector(snap.doc, Tag("main")) # 0
  /\ popupLog[1].url + popupLog[1].title > 0

(***************************************************************************)
(* The popup, the cache and the messages.                                  *)
(***************************************************************************)
\* a request failed: a network error, a status that is not OK, a body that is no JSON
\* or a body with an error field
Failed(call) == call.outcome # "ok"

\* C11, as claimed: a failed /summarize request is followed by a /categories-only
\* request with the same text; when that succeeds its result is returned, and when
\* both fail the click handler ends with the error status shown, loading hidden, the
\* button enabled and nothing written to the cache.
C11_FallbackThenError ==
  /\ \A f \in 1..Len(flights) :
       flights[f].stage = "/categories-only" =>
         /\ Len(flights[f].calls) = 1
         /\ flights[f].calls[1].endpoint = "/summarize"
         /\ Failed(flights[f].calls[1])
         /\ flights[f].calls[1].text = flights[f].text
  /\ lastClick # <<>> =>
       LET calls == lastClick[1].calls
       IN /\ calls[1].endpoint = "/summarize"
          /\ Failed(calls[1]) =>
               /\ Len(calls) = 2
               /\ calls[2].endpoint = "/categories-only"
               /\ calls[2].text = calls[1].text
          /\ (Len(calls) = 2 /\ ~Failed(calls[2])) =>
               lastClick[1].returned = <<Analysis("unavailable", tab)>>
          /\ (Len(calls) = 2 /\ Failed(calls[2])) =>
               /\ ~lastClick[1].stored
               /\ ui.statusClass = "error"
               /\ ui.statusDisplay = "block"
               /\ ui.loadingDisplay = "none"
               /\ ui.btn = "enabled"

\* the time since an entry was written
Age(entry) == now - entry.writtenAt

\* C12, as claimed: a cached summary is displayed by the popup on opening, and
\* answered by the background's getCachedSummary, only if it was stored less than 24
\* hours before; for an older entry getCachedSummary answers null.
C12_ValidFor24Hours ==
  [][/\ (pc = "injecting" /\ pc' = "listening" /\ ui'.summary # <<>>) =>
          Age(storage[PopupKeys[tab]][1]) < CacheValidity
     /\ (IF msg = <<>> THEN FALSE
         ELSE msg[1].pending = "getCachedSummary" /\ msg'[1].pending = "none") =>
          LET cached == storage[BackgroundKeys[msg[1].page]]
              fresh == IF cached = <<>> THEN FALSE ELSE Age(cached[1]) < CacheValidity
          IN /\ msg'[1].reply[1].kind = "summary" => fresh
             /\ ~fresh => msg'[1].reply[1].kind = "null"]_vars

\* C14, as claimed: an entry that is displayed or answered for a URL was written for
\* that URL, and a write for one URL replaces no entry written for another.
C14_KeyedByUrl ==
  [][/\ (pc = "injecting" /\ pc' = "listening" /\ ui'.summary # <<>>) =>
          storage[PopupKeys[tab]][1].writtenFor = tab
     /\ (IF msg = <<>> THEN FALSE
         ELSE /\ msg[1].pending = "getCachedSummary"
              /\ msg'[1].pending = "none"
              /\ msg'[1].reply[1].kind = "summary") =>
          storage[BackgroundKeys[msg[1].page]][1].writtenFor = msg[1].page
     /\ \A k \in CacheKeys :
          (storage[k] # <<>> /\ storage'[k] # <<>>) =>
            storage'[k][1].writtenFor = storage[k][1].writtenFor]_vars

\* C15: every message delivered to an onMessage listener is answered exactly once: when
\* the listener has returned and none of the work it started is left, sendResponse has
\* been called once, also after a failing storage or scripting call; in particular a
\* listener that returned true (channel kept open) is followed by a response.
C15_OneResponsePerMessage ==
  (msg # <<>> /\ msg[1].pending = "none") => msg[1].responses = 1

\* C16, as claimed: a run of cleanupOldCache removes the entries whose key starts with
\* summary_ and that are more than 7 days old, whichever path wrote them, and leaves
\* every other entry as it is.
C16_CleanupRemovesOldSummaries ==
  [][cleanupOldCache =>
       \A k \in CacheKeys :
         storage'[k] = IF /\ storage[k] # <<>>
                          /\ IsSummaryKey(k)
                          /\ Age(storage[k][1]) > CleanupAge
                       THEN <<>> ELSE storage[k]]_vars


\* the model's pages that popup.js 182-213 excludes: a browser page and a store page
RestrictedUrls == {urlChrome, urlStore}

\* detection of the popup's page has returned isTC = true
Detected == currentPageData # <<>> /\ currentPageData[1].isTC

\* C19: popup gating.  A request to the backend is in flight, and an analysis has been
\* cached by the popup, only if detection of the current page returned isTC = true, and
\* what is posted is that page's text; the button is enabled only in such states, is
\* disabled while a request is in flight, and at most one request is outstanding; the
\* button is one the script has set whenever the click listener exists; on a restricted
\* URL nothing is injected, so there is no page data, no listener and no request.
C19_PopupGating ==
  /\ Len(flights) <= 1
  /\ \A f \in 1..Len(flights) :
       /\ Detected
       /\ flights[f].text = currentPageData[1].text
       /\ ui.btn = "disabled"
  /\ (lastClick # <<>> /\ lastClick[1].stored) => Detected
  /\ \A k \in CacheKeys :
       (storage[k] # <<>> /\ storage[k][1].timestamp = <<>>)
         => Detection[storage[k][1].writtenFor].isTC
  /\ ui.btn = "enabled" => Detected
  /\ pc = "listening" => ui.btn \in {"enabled", "disabled"}
  /\ (tab # 0 /\ Pages[tab].url \in RestrictedUrls)
       => (pc = "restricted" /\ currentPageData = <<>> /\ flights = <<>> /\ ui.btn = "disabled")

\* C19 happens: the popup has posted the text of a detected page, cached the analysis
\* and enabled the button again
C19_Witness ==
  /\ Detected
  /\ lastClick # <<>> /\ lastClick[1].stored
  /\ storage[PopupKeys[tab]] # <<>>
  /\ ui.btn = "enabled"


(***************************************************************************)
(* The content script's detection.                                         *)
(***************************************************************************)
\* C13: a run of detectTCPage keeps nothing from earlier runs: what it concludes
\* depends on the snapshot it runs on only, so it reports a T&C page exactly when that
\* snapshot has a signal, whatever earlier snapshots of the page contained.
C13_DetectionIsStateless ==
  lastRun # <<>> => (lastRun[1].detected <=> lastRun[1].signal)

\* C17: after any runs of detectTCPage the document holds at most one element with
\* the indicator's id, and it holds one only if some run found a signal in the URL,
\* the title or an h1-h3 heading of its snapshot.
C17_AtMostOneIndicator ==
  /\ Len(indicatorElements) <= 1
  /\ indicatorElements # <<>> => everSignal

\* C17 happens: a re-detection has found the indicator of an earlier run in place and
\* added none
C17_Witness ==
  /\ Len(indicatorElements) = 1
  /\ lastRun # <<>>
  /\ lastRun[1].trigger = "timer"
  /\ lastRun[1].detected
  /\ ~lastRun[1].added

\* the detection timers that are pending
DetectionTimers == {k \in 1..Len(timers) : timers[k].kind = "detect"}

\* the script has run and has set up its observer, and nothing of it is left to run
Quiescent == script = "observing" /\ timers = <<>> /\ ~records

\* C18: at any time at most one detection timer is pending; a debounced run of
\* detectTCPage follows a full second in which the observer reported no change; and
\* the script comes to rest, with no timer pending and no change of the document to
\* come from it, although its own appendChild set the observer off.
C18_RedetectionQuiesces ==
  /\ [](Cardinality(DetectionTimers) <= 1)
  /\ []((lastRun # <<>> /\ lastRun[1].trigger = "timer") => lastRun[1].quiet >= DetectionDelay)
  /\ <>[]Quiescent
  /\ [][Quiescent /\ budget' = budget => indicatorElements' = indicatorElements]_vars

\* C18 happens: the page has changed itself, an indicator is in the document and has
\* been dimmed, the debounced run that came last added nothing, and the script is
\* at rest
C18_Witness ==
  /\ Quiescent
  /\ script = "observing"
  /\ Len(indicatorElements) = 1
  /\ indicatorElements[1].dimmed
  /\ lastRun # <<>> /\ lastRun[1].trigger = "timer" /\ ~lastRun[1].added
  /\ budget < MaxMutations

====
